---- MODULE Spec2Model ----
(***************************************************************************)
(* Model of the AuthProvider component of                                  *)
(* frontend/src/hooks/useAuth.tsx: the two React state cells (user,        *)
(* authReady), the onAuthStateChanged subscription with its async          *)
(* callback, fetchUserData, and the four actions login, signup,            *)
(* loginWithGoogle and logout.  The identity platform (Firebase Auth) and  *)
(* the document store (Firestore) are the environment: every awaited SDK   *)
(* call is a suspension point whose reply (success or error) is a          *)
(* separate step.                                                          *)
(***************************************************************************)
EXTENDS Naturals, Sequences, FiniteSets, TLC

VARIABLES
    user,        \* useState<ExtendedUser | null>             (line 44)
    authReady,   \* useState(false)                           (line 45)
    mounted,     \* the effect of line 65 is active (not yet cleaned up)
    session,     \* identity platform: auth.currentUser
    accounts,    \* identity platform: uids that have an account
    store,       \* document store: collection "users", keyed by uid
    queue,       \* notifications fired by the platform, not yet delivered
    latest,      \* the most recently delivered notification
    delivered,   \* number of notifications delivered to the callback
    handlers,    \* callback invocations suspended at an await
    calls,       \* login/signup/loginWithGoogle/logout calls suspended at an await
    opCount,     \* number of actions started so far
    writes,      \* history: Role Record writes that landed, per uid and path
    last         \* history: the step just taken, with what it raised

vars == <<user, authReady, mounted, session, accounts, store, queue, latest,
          delivered, handlers, calls, opCount, writes, last>>

----------------------------------------------------------------------------
(* Bounds *)

MaxOps == 2        \* actions started per component lifetime
MaxQueue == 2      \* undelivered notifications

----------------------------------------------------------------------------
(* Values *)

Uids == {"u1", "u2"}

EmailOf(u) == IF u = "u1" THEN "a@x.com" ELSE "b@x.com"

Emails == {EmailOf(u) : u \in Uids}

\* The address as the caller typed it; the platform keeps an account's address
\* in lower case, so firebaseUser.email need not be the string that was typed.
TypedEmails == Emails \cup {"A@x.com"}

Normalize(e) == IF e = "A@x.com" THEN "a@x.com" ELSE e

UidOf(e) == CHOOSE u \in Uids : EmailOf(u) = Normalize(e)

\* The one user who may have an account and a record before the component mounts.
ReturningUid == "u1"

\* The firebase User handed to the callback, and the null it gets instead.
FirebaseUser(u) == [uid |-> u, email |-> EmailOf(u)]

NullFirebaseUser == [uid |-> "null", email |-> "null"]

\* user: ExtendedUser | null
NoUser == [uid |-> "null", email |-> "null", role |-> "null"]

\* { ...firebaseUser, role }
ExtendedUser(fu, role) == [uid |-> fu.uid, email |-> fu.email, role |-> role]

\* A role field that is missing from the document reads as undefined.
Undefined == "undefined"

RoleValues == {"member", "admin", "", Undefined}

Falsy(r) == r \in {"", Undefined}

\* Mutants of RoleOrDefault: the default is forgotten; the record is ignored.
RoleOrDefaultRaw(r) == r

RoleOrDefaultIgnoresRecord(r) == "member"

\* snap.data().role || "member"
RoleOrDefault(r) == IF Falsy(r) THEN "member" ELSE r

NoDoc == [exists |-> FALSE]

Doc(u, e, r) == [exists |-> TRUE, uid |-> u, email |-> e, role |-> r]

\* Mutant of InitialRoleDoc: the first record of a user is created as admin.
InitialRoleDocAdmin(fu) == Doc(fu.uid, fu.email, "admin")

\* The document fetchUserData writes when the snapshot does not exist.
InitialRoleDoc(fu) == Doc(fu.uid, fu.email, "member")

\* Mutant of SignupDoc: the role field is left out of the document.
SignupDocWithoutRole(u, e) == Doc(u, e, Undefined)

\* The document signup writes after createUserWithEmailAndPassword.
SignupDoc(u, e) == Doc(u, e, "member")

\* Errors: a FirebaseError carries a code, a plain Error a message.
FirebaseError(code) == [kind |-> "FirebaseError", text |-> code]

PlainError(msg) == [kind |-> "Error", text |-> msg]

NoError == [kind |-> "none", text |-> ""]

PopupBlocked == "auth/popup-blocked"

AuthErrorCodes == {"auth/network-request-failed"}

PopupErrorCodes == {PopupBlocked, "auth/network-request-failed"}

StoreErrorCodes == {"unavailable"}

PopupMessage == "Google login failed: Your browser blocked the sign-in pop-up. Please allow pop-ups for this site or try again."

\* Mutant of GoogleRaised: the pop-up-blocked error is rethrown as it came.
GoogleRaisedUntranslated(err) == err

\* What loginWithGoogle's catch block throws for the error it caught.
GoogleRaised(err) ==
    IF err.kind = "FirebaseError" /\ err.text = PopupBlocked
    THEN PlainError(PopupMessage)
    ELSE err

----------------------------------------------------------------------------
(* React state setters: an update of an unmounted component is dropped. *)

\* Mutant of SetUser: the update is applied whether or not the component is
\* still mounted.
SetUserAfterUnmount(v) == v

SetUser(v) == IF mounted THEN v ELSE user

SetAuthReady(v) == IF mounted THEN v ELSE authReady

----------------------------------------------------------------------------
(* Identity platform *)

NoNotification == [user |-> NullFirebaseUser, cause |-> "none"]

Notification(fu, cause) == [user |-> fu, cause |-> cause]

\* The uid the platform last notified its observers of.
LastNotifiedUid ==
    IF queue # <<>> THEN queue[Len(queue)].user.uid ELSE latest.user.uid

\* The platform notifies the auth-state observers when the uid of the current
\* user changed, and only while the observer is subscribed.
Fire(fu, cause) ==
    IF mounted /\ LastNotifiedUid # fu.uid
    THEN Append(queue, Notification(fu, cause))
    ELSE queue

CanFire == Len(queue) < MaxQueue

\* The step just taken: the error its SDK call gave and the error it raised.
Step(act, uid, caught, raised) ==
    [act |-> act, uid |-> uid, caught |-> caught, raised |-> raised]

\* Records that exist before the component mounts: the returning user's record
\* with any role field, and none for the user who has yet to sign up.
InitialStores ==
    {[u \in Uids |-> IF u = ReturningUid THEN d ELSE NoDoc] :
        d \in {NoDoc} \cup {Doc(ReturningUid, EmailOf(ReturningUid), r) : r \in RoleValues}}

Init ==
    /\ user = NoUser
    /\ authReady = FALSE
    /\ mounted = TRUE
    /\ accounts \in SUBSET {ReturningUid}
    /\ session \in {NullFirebaseUser} \cup {FirebaseUser(u) : u \in accounts}
    /\ store \in InitialStores
    /\ queue = <<Notification(session, "init")>>
    /\ latest = NoNotification
    /\ delivered = 0
    /\ handlers = {}
    /\ calls = {}
    /\ opCount = 0
    /\ writes = [u \in Uids |-> [recon |-> 0, signup |-> 0]]
    /\ last = Step("Init", "null", NoError, NoError)

----------------------------------------------------------------------------
(* The onAuthStateChanged callback.  The platform does not await the       *)
(* promise the async callback returns, so a later notification is          *)
(* delivered while an earlier invocation is suspended in fetchUserData.    *)

Handler(seq, fu, pc) == [seq |-> seq, fu |-> fu, pc |-> pc]

\* Mutants of DeliverAbsent: the else branch returns before setAuthReady(true);
\* the else branch treats a sign-out as "not ready".
DeliverAbsentNoReady ==
    /\ mounted
    /\ queue # <<>>
    /\ Head(queue).user = NullFirebaseUser
    /\ queue' = Tail(queue)
    /\ latest' = Head(queue)
    /\ delivered' = delivered + 1
    /\ user' = SetUser(NoUser)
    /\ last' = Step("DeliverAbsent", "null", NoError, NoError)
    /\ UNCHANGED <<authReady, mounted, session, accounts, store, handlers, calls, opCount, writes>>

DeliverAbsentResetsReady ==
    /\ mounted
    /\ queue # <<>>
    /\ Head(queue).user = NullFirebaseUser
    /\ queue' = Tail(queue)
    /\ latest' = Head(queue)
    /\ delivered' = delivered + 1
    /\ user' = SetUser(NoUser)
    /\ authReady' = SetAuthReady(FALSE)
    /\ last' = Step("DeliverAbsent", "null", NoError, NoError)
    /\ UNCHANGED <<mounted, session, accounts, store, handlers, calls, opCount, writes>>

\* firebaseUser is null: setUser(null); setAuthReady(true), with no await.
DeliverAbsent ==
    /\ mounted
    /\ queue # <<>>
    /\ Head(queue).user = NullFirebaseUser
    /\ queue' = Tail(queue)
    /\ latest' = Head(queue)
    /\ delivered' = delivered + 1
    /\ user' = SetUser(NoUser)
    /\ authReady' = SetAuthReady(TRUE)
    /\ last' = Step("DeliverAbsent", "null", NoError, NoError)
    /\ UNCHANGED <<mounted, session, accounts, store, handlers, calls, opCount, writes>>

\* firebaseUser is present: fetchUserData runs up to `await getDoc(userRef)`.
DeliverPresent ==
    /\ mounted
    /\ queue # <<>>
    /\ Head(queue).user # NullFirebaseUser
    /\ queue' = Tail(queue)
    /\ latest' = Head(queue)
    /\ delivered' = delivered + 1
    /\ handlers' = handlers \cup {Handler(delivered + 1, Head(queue).user, "getDoc")}
    /\ last' = Step("DeliverPresent", Head(queue).user.uid, NoError, NoError)
    /\ UNCHANGED <<user, authReady, mounted, session, accounts, store, calls, opCount, writes>>

\* getDoc resolves with an existing snapshot; setUser, then the callback
\* resumes after `await fetchUserData` and calls setAuthReady(true).
GetDocExists(h) ==
    /\ h.pc = "getDoc"
    /\ store[h.fu.uid].exists
    /\ user' = SetUser(ExtendedUser(h.fu, RoleOrDefault(store[h.fu.uid].role)))
    /\ authReady' = SetAuthReady(TRUE)
    /\ handlers' = handlers \ {h}
    /\ last' = Step("GetDocExists", h.fu.uid, NoError, NoError)
    /\ UNCHANGED <<mounted, session, accounts, store, queue, latest, delivered, calls, opCount, writes>>

\* getDoc resolves with no snapshot; fetchUserData goes on to `await setDoc`.
GetDocMissing(h) ==
    /\ h.pc = "getDoc"
    /\ ~store[h.fu.uid].exists
    /\ handlers' = (handlers \ {h}) \cup {Handler(h.seq, h.fu, "setDoc")}
    /\ last' = Step("GetDocMissing", h.fu.uid, NoError, NoError)
    /\ UNCHANGED <<user, authReady, mounted, session, accounts, store, queue, latest, delivered, calls, opCount, writes>>

\* Mutant of SetDocOk: the user is published although the record was not written.
SetDocOkWithoutWrite(h) ==
    /\ h.pc = "setDoc"
    /\ user' = SetUser(ExtendedUser(h.fu, InitialRoleDoc(h.fu).role))
    /\ authReady' = SetAuthReady(TRUE)
    /\ handlers' = handlers \ {h}
    /\ last' = Step("SetDocOk", h.fu.uid, NoError, NoError)
    /\ UNCHANGED <<mounted, session, accounts, store, queue, latest, delivered, calls, opCount, writes>>

\* setDoc resolves: the record is written, then setUser and setAuthReady(true).
SetDocOk(h) ==
    /\ h.pc = "setDoc"
    /\ store' = [store EXCEPT ![h.fu.uid] = InitialRoleDoc(h.fu)]
    /\ writes' = [writes EXCEPT ![h.fu.uid].recon = @ + 1]
    /\ user' = SetUser(ExtendedUser(h.fu, InitialRoleDoc(h.fu).role))
    /\ authReady' = SetAuthReady(TRUE)
    /\ handlers' = handlers \ {h}
    /\ last' = Step("SetDocOk", h.fu.uid, NoError, NoError)
    /\ UNCHANGED <<mounted, session, accounts, queue, latest, delivered, calls, opCount>>

\* Mutant of StoreError: the rejection is caught and the user is published
\* with the default role.
StoreErrorFallsBack(h) ==
    /\ \E code \in StoreErrorCodes :
          last' = Step("StoreError", h.fu.uid, FirebaseError(code), FirebaseError(code))
    /\ user' = SetUser(ExtendedUser(h.fu, "member"))
    /\ authReady' = SetAuthReady(TRUE)
    /\ handlers' = handlers \ {h}
    /\ UNCHANGED <<mounted, session, accounts, store, queue, latest, delivered, calls, opCount, writes>>

\* getDoc or setDoc rejects: the rejection leaves fetchUserData and the
\* callback (nothing catches it); neither setUser nor setAuthReady runs.
StoreError(h) ==
    /\ \E code \in StoreErrorCodes :
          last' = Step("StoreError", h.fu.uid, FirebaseError(code), FirebaseError(code))
    /\ handlers' = handlers \ {h}
    /\ UNCHANGED <<user, authReady, mounted, session, accounts, store, queue, latest, delivered, calls, opCount, writes>>

\* The cleanup of the effect: unsubscribe().  Notifications not yet delivered
\* are dropped; suspended invocations and calls are not cancelled.
Unmount ==
    /\ mounted
    /\ mounted' = FALSE
    /\ queue' = <<>>
    /\ last' = Step("Unmount", "null", NoError, NoError)
    /\ UNCHANGED <<user, authReady, session, accounts, store, latest, delivered, handlers, calls, opCount, writes>>

----------------------------------------------------------------------------
(* The four actions *)

Call(id, op, email, pc) == [id |-> id, op |-> op, email |-> email, pc |-> pc]

\* Calls in flight are told apart by the smallest number no other one has.
FreeId == CHOOSE i \in 1..MaxOps : /\ \A c \in calls : c.id # i
                                   /\ \A j \in 1..(i - 1) : \E c \in calls : c.id = j

Start(op, email, pc) ==
    /\ mounted
    /\ opCount < MaxOps
    /\ opCount' = opCount + 1
    /\ calls' = calls \cup {Call(FreeId, op, email, pc)}
    /\ last' = Step(op, "null", NoError, NoError)
    /\ UNCHANGED <<user, authReady, mounted, session, accounts, store, queue, latest, delivered, handlers, writes>>

\* The call's promise rejects with `raised` after its SDK call gave `caught`.
Raise(c, act, caught, raised) ==
    /\ calls' = calls \ {c}
    /\ last' = Step(act, "null", caught, raised)
    /\ UNCHANGED <<user, authReady, mounted, session, accounts, store, queue, latest, delivered, handlers, opCount, writes>>

\* The platform signs fu in (or out, for the null user) and notifies.
SignIn(fu, cause) ==
    /\ CanFire
    /\ session' = fu
    /\ queue' = Fire(fu, cause)

login(email) == Start("login", email, "signIn")

\* Mutant of loginOk: login publishes the signed-in user itself.
loginOkSetsUser(c) ==
    /\ c.op = "login"
    /\ UidOf(c.email) \in accounts
    /\ SignIn(FirebaseUser(UidOf(c.email)), "signIn")
    /\ user' = SetUser(ExtendedUser(FirebaseUser(UidOf(c.email)), "member"))
    /\ calls' = calls \ {c}
    /\ last' = Step("loginOk", UidOf(c.email), NoError, NoError)
    /\ UNCHANGED <<authReady, mounted, accounts, store, latest, delivered, handlers, opCount, writes>>

loginOk(c) ==
    /\ c.op = "login"
    /\ UidOf(c.email) \in accounts
    /\ SignIn(FirebaseUser(UidOf(c.email)), "signIn")
    /\ calls' = calls \ {c}
    /\ last' = Step("loginOk", UidOf(c.email), NoError, NoError)
    /\ UNCHANGED <<user, authReady, mounted, accounts, store, latest, delivered, handlers, opCount, writes>>

\* Mutant of loginFail: the catch block throws an error of its own.
loginFailWrapped(c) ==
    /\ c.op = "login"
    /\ \E code \in AuthErrorCodes :
          Raise(c, "loginFail", FirebaseError(code), PlainError("Login failed"))

loginFail(c) ==
    /\ c.op = "login"
    /\ \E code \in AuthErrorCodes :
          Raise(c, "loginFail", FirebaseError(code), FirebaseError(code))

signup(email) == Start("signup", email, "createUser")

\* createUserWithEmailAndPassword resolves: the account exists and is signed
\* in; signup goes on to `await setDoc`.
signupCreated(c) ==
    /\ c.op = "signup" /\ c.pc = "createUser"
    /\ UidOf(c.email) \notin accounts
    /\ accounts' = accounts \cup {UidOf(c.email)}
    /\ SignIn(FirebaseUser(UidOf(c.email)), "signIn")
    /\ calls' = (calls \ {c}) \cup {Call(c.id, c.op, c.email, "setDoc")}
    /\ last' = Step("signupCreated", UidOf(c.email), NoError, NoError)
    /\ UNCHANGED <<user, authReady, mounted, store, latest, delivered, handlers, opCount, writes>>

signupCreateFail(c) ==
    /\ c.op = "signup" /\ c.pc = "createUser"
    /\ \E code \in AuthErrorCodes :
          Raise(c, "signupCreateFail", FirebaseError(code), FirebaseError(code))

\* setDoc resolves: the record is written and signup returns.
signupOk(c) ==
    /\ c.op = "signup" /\ c.pc = "setDoc"
    /\ store' = [store EXCEPT ![UidOf(c.email)] = SignupDoc(UidOf(c.email), c.email)]
    /\ writes' = [writes EXCEPT ![UidOf(c.email)].signup = @ + 1]
    /\ calls' = calls \ {c}
    /\ last' = Step("signupOk", UidOf(c.email), NoError, NoError)
    /\ UNCHANGED <<user, authReady, mounted, session, accounts, queue, latest, delivered, handlers, opCount>>

signupWriteFail(c) ==
    /\ c.op = "signup" /\ c.pc = "setDoc"
    /\ \E code \in StoreErrorCodes :
          Raise(c, "signupWriteFail", FirebaseError(code), FirebaseError(code))

loginWithGoogle == Start("loginWithGoogle", "null", "signIn")

\* signInWithPopup resolves with the Google account the user picked.
loginWithGoogleOk(c) ==
    /\ c.op = "loginWithGoogle"
    /\ \E u \in Uids :
          /\ accounts' = accounts \cup {u}
          /\ SignIn(FirebaseUser(u), "signIn")
          /\ last' = Step("loginWithGoogleOk", u, NoError, NoError)
    /\ calls' = calls \ {c}
    /\ UNCHANGED <<user, authReady, mounted, store, latest, delivered, handlers, opCount, writes>>

loginWithGoogleFail(c) ==
    /\ c.op = "loginWithGoogle"
    /\ \E code \in PopupErrorCodes :
          Raise(c, "loginWithGoogleFail", FirebaseError(code), GoogleRaised(FirebaseError(code)))

logout == Start("logout", "null", "signOut")

logoutOk(c) ==
    /\ c.op = "logout"
    /\ SignIn(NullFirebaseUser, "signOut")
    /\ calls' = calls \ {c}
    /\ last' = Step("logoutOk", "null", NoError, NoError)
    /\ UNCHANGED <<user, authReady, mounted, accounts, store, latest, delivered, handlers, opCount, writes>>

logoutFail(c) ==
    /\ c.op = "logout"
    /\ \E code \in AuthErrorCodes :
          Raise(c, "logoutFail", FirebaseError(code), FirebaseError(code))

----------------------------------------------------------------------------
HandlerStep ==
    \/ DeliverAbsent
    \/ DeliverPresent
    \/ \E h \in handlers : GetDocExists(h)
    \/ \E h \in handlers : GetDocMissing(h)
    \/ \E h \in handlers : SetDocOk(h)
    \/ \E h \in handlers : StoreError(h)

CallStep ==
    \/ \E c \in calls : loginOk(c)
    \/ \E c \in calls : loginFail(c)
    \/ \E c \in calls : signupCreated(c)
    \/ \E c \in calls : signupCreateFail(c)
    \/ \E c \in calls : signupOk(c)
    \/ \E c \in calls : signupWriteFail(c)
    \/ \E c \in calls : loginWithGoogleOk(c)
    \/ \E c \in calls : loginWithGoogleFail(c)
    \/ \E c \in calls : logoutOk(c)
    \/ \E c \in calls : logoutFail(c)

Next ==
    \/ \E e \in TypedEmails : login(e)
    \/ \E e \in TypedEmails : signup(e)
    \/ loginWithGoogle
    \/ logout
    \/ CallStep
    \/ HandlerStep
    \/ Unmount

Spec == Init /\ [][Next]_vars

\* Every SDK call is answered and every fired notification is delivered while
\* the observer is subscribed; which actions the UI starts, and whether it
\* unmounts, is not forced.
FairSpec == Spec /\ WF_vars(CallStep) /\ WF_vars(HandlerStep)

\* The same component with a document store that never fails.
ReliableHandlerStep ==
    \/ DeliverAbsent
    \/ DeliverPresent
    \/ \E h \in handlers : GetDocExists(h)
    \/ \E h \in handlers : GetDocMissing(h)
    \/ \E h \in handlers : SetDocOk(h)

ReliableCallStep ==
    \/ \E c \in calls : loginOk(c)
    \/ \E c \in calls : loginFail(c)
    \/ \E c \in calls : signupCreated(c)
    \/ \E c \in calls : signupCreateFail(c)
    \/ \E c \in calls : signupOk(c)
    \/ \E c \in calls : loginWithGoogleOk(c)
    \/ \E c \in calls : loginWithGoogleFail(c)
    \/ \E c \in calls : logoutOk(c)
    \/ \E c \in calls : logoutFail(c)

ReliableNext ==
    \/ \E e \in TypedEmails : login(e)
    \/ \E e \in TypedEmails : signup(e)
    \/ loginWithGoogle
    \/ logout
    \/ ReliableCallStep
    \/ ReliableHandlerStep
    \/ Unmount

ReliableSpec == Init /\ [][ReliableNext]_vars

----------------------------------------------------------------------------
(* Claims *)

\* C1: a published Session User always carries a resolved role: a non-empty
\* role value, and whenever a present user is published its role is the role
\* field of that user's Role Record as read in that step, or "member".
C1_RoleResolved ==
    /\ [](user # NoUser => user.role \in {"member", "admin"})
    /\ [][(user' # user /\ user' # NoUser) =>
            \/ user'.role = "member"
            \/ /\ store[user'.uid].exists
               /\ user'.role = store[user'.uid].role]_vars

\* C1 witness: a user whose record holds an empty or missing role is published
\* with the default role.
C1_Witness ==
    /\ user # NoUser
    /\ store[user.uid].exists
    /\ store[user.uid].role \in {"", Undefined}
    /\ user.role = "member"

\* C2 (as claimed): whenever no handler is in flight, Session User is null iff
\* the most recent notification reported absence, and otherwise has the uid of
\* the user in the most recent notification.
C2_AgreesWithLatest ==
    (mounted /\ delivered >= 1 /\ handlers = {}) =>
        /\ (user = NoUser) <=> (latest.user = NullFirebaseUser)
        /\ user.uid = latest.user.uid

\* C3 (as claimed): once the absence notification caused by a successful
\* logout is the most recently handled notification, Session User is null.
C3_NullAfterLogout ==
    (mounted /\ latest.cause = "signOut") => user = NoUser

\* C4: the Readiness Flag starts false and never goes from true to false.
C4_ReadyMonotone ==
    /\ authReady = FALSE
    /\ [][authReady => authReady']_vars

\* C4 witness: the flag is true and a further notification has been handled
\* since the first one.
C4_Witness ==
    /\ authReady
    /\ delivered >= 2
    /\ last.act \in {"DeliverAbsent", "GetDocExists", "SetDocOk"}

\* C5 (as claimed): when the Readiness Flag is true, the handler of the first
\* delivered notification has completed.
C5_ReadyAfterFirst ==
    authReady => /\ delivered >= 1
                 /\ \A h \in handlers : h.seq # 1

\* C6 (as claimed): once a notification has been delivered to the mounted
\* component, the Readiness Flag eventually becomes true (or the component
\* unmounts first).
C6_EventuallyReady ==
    (mounted /\ delivered >= 1) ~> (authReady \/ ~mounted)

\* C7: the step that handles a notification reporting absence sets Session
\* User to null and the Readiness Flag to true, starts no handler that awaits
\* the document store and leaves the store as it is.
C7_AbsentHandled ==
    [][(delivered' = delivered + 1 /\ latest'.user = NullFirebaseUser) =>
          /\ user' = NoUser
          /\ authReady' = TRUE
          /\ handlers' = handlers
          /\ store' = store
          /\ writes' = writes]_vars

\* C7 witness: the absence notification of a sign-out has just been handled
\* while an earlier invocation was still suspended.
C7_Witness ==
    /\ last.act = "DeliverAbsent"
    /\ latest.cause = "signOut"
    /\ user = NoUser
    /\ authReady

\* C8: when the getDoc of a reconciliation resolves with an existing record,
\* the published Session User is the notified user with the record's role if
\* that is present and non-empty and "member" otherwise, and the store is not
\* written.
C8_ExistingRecord ==
    [][\A h \in handlers :
          (h \notin handlers' /\ last'.act = "GetDocExists" /\ last'.uid = h.fu.uid) =>
             /\ mounted =>
                  user' = [uid |-> h.fu.uid, email |-> h.fu.email,
                           role |-> IF store[h.fu.uid].role \in {"", Undefined}
                                    THEN "member" ELSE store[h.fu.uid].role]
             /\ store' = store
             /\ writes' = writes]_vars

\* C8 witness: a user whose record holds role "admin" has just been published
\* as an admin.
C8_Witness ==
    /\ last.act = "GetDocExists"
    /\ mounted
    /\ user.uid = last.uid
    /\ user.role = "admin"

\* C9 (as claimed): when reconciliation creates the Role Record of a user, it
\* is the one creating write for that uid over the whole execution, counting
\* signup's writes, and the user it then publishes has role "member".
C9_CreatedExactlyOnce ==
    /\ \A u \in Uids :
          writes[u].recon >= 1 => writes[u].recon + writes[u].signup = 1
    /\ (last.act = "SetDocOk" /\ mounted) =>
          /\ user.uid = last.uid
          /\ user.role = "member"

\* C10: when signup returns successfully, the Role Record of the new identity
\* exists with role "member".
C10_SignupRecord ==
    last.act = "signupOk" =>
        /\ store[last.uid].exists
        /\ store[last.uid].uid = last.uid
        /\ store[last.uid].role = "member"

\* C10 witness: signup has returned while the notification for the new
\* identity has not yet been delivered.
C10_Witness ==
    /\ last.act = "signupOk"
    /\ store[last.uid].exists
    /\ \E i \in 1..Len(queue) : queue[i].user.uid = last.uid

C12_GoogleErrors ==
    [][\A c \in calls :
          (c.op = "loginWithGoogle" /\ c \notin calls' /\ last'.act = "loginWithGoogleFail") =>
             /\ last'.caught.kind = "FirebaseError"
             /\ IF last'.caught.text = "auth/popup-blocked"
                THEN /\ last'.raised # last'.caught
                     /\ last'.raised.kind = "Error"
                     /\ last'.raised.text = PopupMessage
                ELSE last'.raised = last'.caught
             /\ user' = user
             /\ authReady' = authReady]_vars

\* C12 witness: loginWithGoogle has just failed on a blocked pop-up and raised
\* the translated error.
C12_Witness ==
    /\ last.act = "loginWithGoogleFail"
    /\ last.caught = FirebaseError("auth/popup-blocked")
    /\ last.raised.kind = "Error"

\* C13: a failing login, signup or logout raises exactly the error its SDK
\* call gave and changes neither Session User nor the Readiness Flag; a signup
\* whose account creation fails writes no Role Record and issues no write.
C13_ErrorsUnchanged ==
    [][\A c \in calls :
          (c \notin calls' /\ last'.act \in {"loginFail", "signupCreateFail",
                                             "signupWriteFail", "logoutFail"}) =>
             /\ last'.caught # NoError
             /\ last'.raised = last'.caught
             /\ user' = user
             /\ authReady' = authReady
             /\ last'.act = "signupCreateFail" =>
                   /\ store' = store
                   /\ writes' = writes
                   /\ \A d \in calls' : d.id # c.id]_vars

\* C13 witness: a signup has just failed at account creation while a user is
\* published, and no record was written for the address.
C13_Witness ==
    /\ last.act = "signupCreateFail"
    /\ last.raised.kind = "FirebaseError"
    /\ user # NoUser

\* C14 (as claimed): at most one reconciliation is in flight, and no Role
\* Record write of signup is in flight while a reconciliation awaits the
\* document store.
C14_OneAtATime ==
    /\ Cardinality(handlers) <= 1
    /\ handlers # {} => \A c \in calls : ~(c.op = "signup" /\ c.pc = "setDoc")

\* C15 (as claimed): whenever signup's Role Record write and a lazy-create
\* write of reconciliation are in flight for the same identity, the two
\* documents have the same fields with the same values.
C15_WritePathsAgree ==
    \A c \in calls : \A h \in handlers :
        (c.op = "signup" /\ c.pc = "setDoc" /\ h.pc = "setDoc" /\ h.fu.uid = UidOf(c.email)) =>
            SignupDoc(UidOf(c.email), c.email) = InitialRoleDoc(h.fu)

\* C16: no step of login, signup, loginWithGoogle or logout changes Session
\* User or the Readiness Flag; they change only in steps of the notification
\* handler (a delivery, or the completion of a suspended invocation).
C16_ActionsDoNotPublish ==
    [][/\ (calls' # calls \/ opCount' # opCount) =>
             (user' = user /\ authReady' = authReady)
       /\ (user' # user \/ authReady' # authReady) =>
             (delivered' # delivered \/ handlers' # handlers)]_vars

\* C16 witness: login has just succeeded and the platform has signed the user
\* in, while Session User still shows nobody.
C16_Witness ==
    /\ last.act = "loginOk"
    /\ session.uid = last.uid
    /\ user = NoUser

\* C17: when a store call of a reconciliation fails, the error leaves the
\* handler, that invocation is gone (no retry: an invocation only ever moves
\* from its getDoc to its setDoc), and Session User, the Readiness Flag and
\* the store keep the values they had.
C17_StoreErrorNoPublish ==
    [][/\ \A h \in handlers :
             (h \notin handlers' /\ last'.act = "StoreError") =>
                /\ last'.raised.kind = "FirebaseError"
                /\ last'.raised = last'.caught
                /\ user' = user
                /\ authReady' = authReady
                /\ store' = store
                /\ \A g \in handlers' : g.seq # h.seq
       /\ \A g \in handlers' :
             \/ g \in handlers
             \/ g.pc = "getDoc" /\ g.seq = delivered' /\ delivered' = delivered + 1
             \/ g.pc = "setDoc" /\ [g EXCEPT !.pc = "getDoc"] \in handlers]_vars

\* C17 witness: the reconciliation of a second user has just failed and the
\* first user is still the published Session User.
C17_Witness ==
    /\ last.act = "StoreError"
    /\ mounted
    /\ user # NoUser
    /\ user.uid # last.uid
    /\ latest.user.uid = last.uid

\* C18: after unmount no notification is delivered and no handler starts,
\* Session User and the Readiness Flag never change, and the component stays
\* unmounted; invocations and calls in flight still take their steps.
C18_NothingObservedAfterUnmount ==
    [][~mounted =>
          /\ ~mounted'
          /\ user' = user
          /\ authReady' = authReady
          /\ delivered' = delivered
          /\ \A g \in handlers' : \E h \in handlers : h.seq = g.seq]_vars

\* C18 witness: a reconciliation in flight at unmount has written its Role
\* Record after the unmount, and nothing was published.
C18_Witness ==
    /\ ~mounted
    /\ last.act = "SetDocOk"
    /\ store[last.uid].exists
    /\ user = NoUser
    /\ ~authReady

\* C19: every Role Record write of the component carries role "member", and a
\* published Session User has role "member" or a role some record already
\* holds; so a store without other roles never acquires one.
C19_NeverGrantsRole ==
    [][/\ \A u \in Uids :
             store'[u] # store[u] => (store'[u].exists /\ store'[u].role = "member")
       /\ (user' # user /\ user' # NoUser) =>
             \/ user'.role = "member"
             \/ \E u \in Uids : store[u].exists /\ store[u].role = user'.role
       /\ (\A u \in Uids : store[u].exists => store[u].role = "member") =>
             (\A u \in Uids : store'[u].exists => store'[u].role = "member")]_vars

\* C19 witness: both write paths have written the record of one user, and it
\* holds role "member".
C19_Witness ==
    \E u \in Uids :
        /\ writes[u].recon >= 1
        /\ writes[u].signup >= 1
        /\ store[u].role = "member"

----------------------------------------------------------------------------
(* The users collection is shared: another session of the same user (a      *)
(* second tab running fetchUserData) or an administrator writes users/{uid} *)
(* while this component runs.                                               *)

OtherWriter(u, r) ==
    /\ store[u] # Doc(u, EmailOf(u), r)
    /\ store' = [store EXCEPT ![u] = Doc(u, EmailOf(u), r)]
    /\ last' = Step("OtherWriter", u, NoError, NoError)
    /\ UNCHANGED <<user, authReady, mounted, session, accounts, queue, latest,
                   delivered, handlers, calls, opCount, writes>>

SharedNext ==
    \/ Next
    \/ \E u \in Uids : \E r \in {"member", "admin"} : OtherWriter(u, r)

SharedSpec == Init /\ [][SharedNext]_vars

\* C20 (as claimed): a Role Record that exists at the moment the setDoc of a
\* reconciliation lands is left unchanged by it.
C20_CreateIfAbsent ==
    [][\A h \in handlers :
          (h.pc = "setDoc" /\ h \notin handlers' /\ last'.act = "SetDocOk"
             /\ last'.uid = h.fu.uid /\ store[h.fu.uid].exists) =>
                store'[h.fu.uid] = store[h.fu.uid]]_vars

====
